---- MODULE Spec2Model ----
(***************************************************************************)
(* gmocoin-exec-alert: the connection supervisor (_runner / _run_once),    *)
(* its two sibling tasks (_extend_token_loop, _recv_loop), the DedupCache  *)
(* the receive loop consults and the PagerDutyClient it calls.             *)
(*                                                                         *)
(* Specifications:                                                         *)
(*   Spec        the whole process, driven by its environment              *)
(*   FairSpec    the process under the fairness of a running event loop,   *)
(*               all frames of a run arriving in the same second           *)
(*   SpecOutage  the process during an upstream outage (no stream frames), *)
(*               explored to longer failure runs                           *)
(*   SpecDedup   DedupCache alone, driven by direct seen_recently calls    *)
(*   SpecPager   PagerDutyClient alone, driven by direct trigger / resolve *)
(*               calls                                                     *)
(*   SpecMonitor ProcessMonitor.monitor_loop alone, driven by the process  *)
(*               table it polls                                            *)
(***************************************************************************)
EXTENDS Integers, Sequences, FiniteSets, TLC

\* ---------------------------------------------------------------- bounds
\* dedup_ttl_sec and dedup_max_keys of the configuration, scaled down.
TtlSec == 3
MaxKeys == 2
\* Distinct order ids carried by execution events.
NumOrders == 2
\* The clock runs from 0 to MaxTime; the frames of one run of the process
\* (Spec) arrive within Burst seconds, inside one TTL window.
MaxTime == TtlSec + 1
Burst == TtlSec - 2
\* Stream frames handled in one run of the process (Spec).
MaxMsgs == 2
\* Direct seen_recently calls in one run of SpecDedup.
MaxCalls == 5
\* Consecutive failed cycles explored (Spec / SpecOutage).
MaxFails == 2
MaxOutage == 7
\* process_monitor_idle_threshold_sec of the configuration, scaled down.
IdleSec == 2

\* ------------------------------------------------- configuration defaults
BackoffBase == 1
BackoffMax == 30
AlertChannels == <<"executionEvents">>

Min(a, b) == IF a <= b THEN a ELSE b

Range(s) == {s[i] : i \in 1..Len(s)}

VARIABLES
    cfgMonitor,   \* cfg.process_monitor_enabled
    cfgDryRun,    \* cfg.pagerduty_dry_run
    stop,         \* the asyncio.Event set by SIGINT / SIGTERM
    sup,          \* where _runner / _run_once is suspended
    backoff,      \* _runner's local `backoff`
    token,        \* _run_once's local `token`
    subIdx,       \* next channel of cfg.alert_channels to subscribe
    extPc,        \* where extend_task is suspended
    recvPc,       \* where recv_task is suspended
    recvErr,      \* recv_task ended by an exception (the stream errored)
    seen,         \* DedupCache._seen, in OrderedDict order (head first)
    now,          \* what time.time() returned when it was last read
    \* ---- observers (read by no action's guard except the bounds)
    fails,        \* cycles that raised since the last cycle that returned
    connected,    \* this cycle created its token, connected and subscribed
    sinceEnd,     \* "fresh": no cycle ended yet; "ended": a cycle ended and
                  \* no backoff wait finished since; "slept": one did
    lastDelay,    \* the delay of the previous backoff wait of this failure run
    pendingErr,   \* the exception in flight when _run_once's finally ran
    revokeCalls,  \* delete_ws_token calls of this cycle
    revokeRes,    \* outcome of this cycle's delete_ws_token call
    pdResult,     \* outcome of the last finished pd.trigger call of this cycle
    handled,      \* stream frames handled / direct calls made so far
    callKey,      \* key of the seen_recently call of the last handled input
    ret,          \* what that call returned
    trigKey,      \* dedup_key of the pd.trigger call the last frame led to
    watch,        \* one insertion into the cache, followed until re-inserted
    lastFrame,    \* what the last frame read in this cycle was
    malformedSeen, \* a malformed frame was read in this cycle
    extRes,       \* outcome of this cycle's last finished extend_ws_token call
    posted,       \* a request was sent to the PagerDuty Events API
    pdOp,         \* the PagerDutyClient method called last
    hit,          \* the last seen_recently call found its key present
    evicted,      \* the keys _enforce_max evicted in the last call
    lru,          \* the resident keys, least recently inserted or hit first
    cycleKeys,    \* the keys seen_recently was called with in this cycle
    reAlerted,    \* the last frame's pd.trigger call was for a key inserted
                  \* less than ttl_sec earlier, in an earlier cycle
    extToken,     \* whose token extend_task holds: this cycle's ("current")
                  \* or an earlier cycle's ("earlier")
    monPc,        \* where ProcessMonitor.monitor_loop is suspended
    lastSeenTime, \* ProcessMonitor._last_seen_time (NoTime for None)
    hasNotified,  \* ProcessMonitor._has_notified
    procs,        \* the last process check found matching processes
    presentAt     \* when a check last found matching processes

vars == <<cfgMonitor, cfgDryRun, stop, sup, backoff, token, subIdx, extPc,
          recvPc, recvErr, seen, now, fails, connected, sinceEnd, lastDelay,
          pendingErr, revokeCalls, revokeRes, pdResult, handled, callKey, ret,
          trigKey, watch, lastFrame, malformedSeen, extRes, posted, pdOp, hit,
          evicted, lru, cycleKeys, reAlerted, extToken, monPc, lastSeenTime,
          hasNotified, procs, presentAt>>

\* The variables by owner, for the UNCHANGED clauses.
cfgVars == <<cfgMonitor, cfgDryRun>>
supVars == <<sup, backoff, token, subIdx, fails, connected, sinceEnd,
             lastDelay, pendingErr, revokeCalls, revokeRes>>
extVars == <<extPc, extRes, extToken>>
recvObs == <<lastFrame, malformedSeen, posted, pdOp, cycleKeys, reAlerted>>
recvVars == <<recvPc, recvErr, pdResult, handled, trigKey, recvObs>>
dedupVars == <<seen, callKey, ret, watch, hit, evicted, lru>>
monVars == <<monPc, lastSeenTime, hasNotified, procs, presentAt>>

\* ------------------------------------------------------------ stream data
EventsOf(channel, orderIds) ==
    [channel : {channel}, orderId : orderIds, executionId : {1},
     orderStatus : {"ORDERED"}, msgType : {"NOR"}, orderTimestamp : {0},
     executionPrice : {100, 101}]

Events ==
    EventsOf("executionEvents", 1..NumOrders) \cup EventsOf("orderEvents", {1})

\* A text frame: not JSON, JSON but not an object, or a JSON object.
FrameKinds == {"garbage", "array", "object"}

dedup_key_for_event(event) ==
    IF event.channel = "executionEvents"
    THEN <<"gmocoin", event.channel, event.orderId, event.executionId>>
    ELSE IF event.channel = "orderEvents"
    THEN <<"gmocoin", event.channel, event.orderId, event.orderStatus,
           event.msgType, event.orderTimestamp>>
    ELSE <<"gmocoin", event.channel, event>>

KeySet == {dedup_key_for_event(e) : e \in Events}

NoKey == <<>>

\* self._last_seen_time = None
NoTime == -1

\* ------------------------------------------------------------- DedupCache
\* prune with the cutoff one second late: entries expire a second early.
RECURSIVE pruneEarly(_, _)
pruneEarly(s, t) ==
    IF s = <<>> THEN s
    ELSE IF Head(s).ts > t - TtlSec + 1 THEN s
    ELSE pruneEarly(Tail(s), t)

\* prune with the cutoff one second early: entries expire a second late.
RECURSIVE pruneLate(_, _)
pruneLate(s, t) ==
    IF s = <<>> THEN s
    ELSE IF Head(s).ts > t - TtlSec - 1 THEN s
    ELSE pruneLate(Tail(s), t)

RECURSIVE prune(_, _)
prune(s, t) ==
    IF s = <<>> THEN s
    ELSE IF Head(s).ts > t - TtlSec THEN s
    ELSE prune(Tail(s), t)

\* enforce_max with the comparison off by one.
RECURSIVE enforceMaxLoose(_)
enforceMaxLoose(s) ==
    IF Len(s) > MaxKeys + 1 THEN enforceMaxLoose(Tail(s)) ELSE s

RECURSIVE enforce_max(_)
enforce_max(s) ==
    IF Len(s) > MaxKeys THEN enforce_max(Tail(s)) ELSE s

Keys(s) == {s[i].key : i \in 1..Len(s)}

IndexOf(s, key) == CHOOSE i \in 1..Len(s) : s[i].key = key

Without(s, key) == SelectSeq(s, LAMBDA e : e.key # key)

\* seen_recently refreshing the timestamp of the key it finds.
seenRecentlyRefreshing(s, key, t) ==
    LET p == prune(s, t) IN
    IF key \notin Keys(p)
    THEN LET q == Append(p, [key |-> key, ts |-> t])
             r == enforce_max(q)
         IN [seen |-> r, ret |-> FALSE, inserted |-> TRUE,
             evicted |-> Keys(q) \ Keys(r)]
    ELSE LET e == p[IndexOf(p, key)]
         IN [seen |-> Append(Without(p, key), [key |-> key, ts |-> t]),
             ret |-> (t - e.ts) <= TtlSec, inserted |-> FALSE,
             evicted |-> {}]

\* seen_recently leaving the key it finds where it is.
seenRecentlyInPlace(s, key, t) ==
    LET p == prune(s, t) IN
    IF key \notin Keys(p)
    THEN LET q == Append(p, [key |-> key, ts |-> t])
             r == enforce_max(q)
         IN [seen |-> r, ret |-> FALSE, inserted |-> TRUE,
             evicted |-> Keys(q) \ Keys(r)]
    ELSE LET e == p[IndexOf(p, key)]
         IN [seen |-> p, ret |-> (t - e.ts) <= TtlSec, inserted |-> FALSE,
             evicted |-> {}]

\* seen_recently(key) at time t on cache s: the cache afterwards, the value
\* returned, whether the key was inserted, and the keys _enforce_max evicted.
seen_recently(s, key, t) ==
    LET p == prune(s, t) IN
    IF key \notin Keys(p)
    THEN LET q == Append(p, [key |-> key, ts |-> t])
             r == enforce_max(q)
         IN [seen |-> r, ret |-> FALSE, inserted |-> TRUE,
             evicted |-> Keys(q) \ Keys(r)]
    ELSE LET e == p[IndexOf(p, key)]
         IN [seen |-> Append(Without(p, key), e),
             ret |-> (t - e.ts) <= TtlSec, inserted |-> FALSE,
             evicted |-> {}]

\* ----------------------------------------------------------- the observer
NoWatch == [key |-> NoKey, t |-> -1, hit |-> FALSE, evicted |-> FALSE]

\* The insertions the observer may follow after a call: a new insertion may
\* replace the one followed, and always does when it is of the same key.
WatchNext(w, key, r, t) ==
    LET fresh == [key |-> key, t |-> t, hit |-> FALSE, evicted |-> FALSE]
        kept == IF w.key \in r.evicted THEN [w EXCEPT !.evicted = TRUE] ELSE w
    IN IF r.inserted
       THEN IF w.key = key THEN {fresh} ELSE {fresh, kept}
       ELSE IF w.key = key THEN {[w EXCEPT !.hit = TRUE]} ELSE {w}

\* One seen_recently(key) call on the cache of the state; its time.time()
\* reads t.
DedupCall(key, t) ==
    \E r \in {seen_recently(seen, key, t)} :
        /\ now' = t
        /\ seen' = r.seen
        /\ ret' = r.ret
        /\ callKey' = key
        /\ watch' \in WatchNext(watch, key, r, t)
        /\ hit' = ~r.inserted
        /\ evicted' = r.evicted
        /\ LET resident == Keys(r.seen) \ {key}
           IN lru' = Append(SelectSeq(lru, LAMBDA k : k \in resident), key)

\* ------------------------------------------------------------------ Init
Init ==
    /\ cfgMonitor \in BOOLEAN
    /\ cfgDryRun \in BOOLEAN
    /\ stop = FALSE
    /\ sup = "loop"
    /\ backoff = BackoffBase
    /\ token = "none"
    /\ subIdx = 1
    /\ extPc = "none"
    /\ recvPc = "none"
    /\ recvErr = FALSE
    /\ seen = <<>>
    /\ now = 0
    /\ fails = 0
    /\ connected = FALSE
    /\ sinceEnd = "fresh"
    /\ lastDelay = 0
    /\ pendingErr = FALSE
    /\ revokeCalls = 0
    /\ revokeRes = "none"
    /\ pdResult = "none"
    /\ handled = 0
    /\ callKey = NoKey
    /\ ret = FALSE
    /\ trigKey = NoKey
    /\ watch = NoWatch
    /\ lastFrame = "none"
    /\ malformedSeen = FALSE
    /\ extRes = "none"
    /\ posted = FALSE
    /\ pdOp = "none"
    /\ hit = FALSE
    /\ evicted = {}
    /\ lru = <<>>
    /\ cycleKeys = {}
    /\ reAlerted = FALSE
    /\ extToken = "none"
    /\ monPc = "none"
    /\ lastSeenTime = NoTime
    /\ hasNotified = FALSE
    /\ procs = FALSE
    /\ presentAt = NoTime

\* ------------------------------------------------------------ environment
\* The values time.time() can return at its next read: the clock does not
\* run backwards.
ClockReads(limit) == now..limit

\* SIGINT / SIGTERM: loop.add_signal_handler(sig, stop.set)
SetStop ==
    /\ ~stop
    /\ stop' = TRUE
    /\ UNCHANGED <<cfgVars, monVars, supVars, extVars, recvVars, dedupVars,
                   now>>

\* ------------------------------------------------------------- supervisor
\* _run_once raised: _runner logs and starts the backoff wait.
EndRaise ==
    /\ sup' = "backoff"
    /\ fails' = fails + 1
    /\ sinceEnd' = "ended"
    /\ UNCHANGED <<backoff, lastDelay>>

\* _run_once returned: _runner resets backoff and tests the loop condition.
EndReturn ==
    /\ sup' = "loop"
    /\ backoff' = BackoffBase
    /\ fails' = 0
    /\ sinceEnd' = "ended"
    /\ lastDelay' = 0

\* backoff = min(backoff * 2, cfg.reconnect_backoff_max_sec)
backoffUncapped(b) == b * 2

next_backoff(b) == Min(b * 2, BackoffMax)

\* One cache for the whole process, kept from cycle to cycle.
cacheOfProcess == seen

\* dedup = DedupCache(...) in _run_once: the cache a cycle starts with.
cacheOfCycle == <<>>

\* `while not stop.is_set()` and, when it holds, _run_once up to its first
\* await: the clients and a new DedupCache are built, and with the process
\* monitor enabled cfg.process_monitor_severity is read, which Config does
\* not have, so the cycle raises before a token exists.
LoopTop(limit) ==
    /\ sup = "loop"
    /\ IF stop
       THEN /\ sup' = "stopped"
            /\ UNCHANGED <<backoff, token, subIdx, fails, connected, sinceEnd,
                           lastDelay, pendingErr, revokeCalls, revokeRes,
                           seen, lru, pdResult, lastFrame, malformedSeen,
                           extRes, cycleKeys, reAlerted, extToken>>
       ELSE /\ fails < limit
            /\ token' = "none"
            /\ seen' = cacheOfCycle
            /\ lru' = <<>>
            /\ lastFrame' = "none"
            /\ malformedSeen' = FALSE
            /\ cycleKeys' = {}
            /\ reAlerted' = FALSE
            /\ extRes' = "none"
            /\ extToken' = IF extToken = "none" THEN "none" ELSE "earlier"
            /\ connected' = FALSE
            /\ revokeCalls' = 0
            /\ revokeRes' = "none"
            /\ pdResult' = "none"
            /\ subIdx' = 1
            /\ IF cfgMonitor
               THEN pendingErr' = TRUE /\ EndRaise
               ELSE /\ pendingErr' = FALSE
                    /\ sup' = "creating"
                    /\ UNCHANGED <<backoff, fails, sinceEnd, lastDelay>>
    /\ UNCHANGED <<cfgVars, monVars, stop, extPc, recvPc, recvErr, handled,
                   trigKey,
                   posted, pdOp, callKey, ret, watch, hit, evicted, now>>

SupLoop == LoopTop(MaxFails)

SupLoopOutage == LoopTop(MaxOutage)

\* token = await gmo.create_ws_token()
SupCreateToken ==
    /\ sup = "creating"
    /\ \E ok \in BOOLEAN :
         IF ok
         THEN /\ token' = "tok"
              /\ sup' = "connecting"
              /\ UNCHANGED <<backoff, fails, sinceEnd, lastDelay, pendingErr>>
         ELSE /\ pendingErr' = TRUE
              /\ EndRaise
              /\ UNCHANGED token
    /\ UNCHANGED <<cfgVars, monVars, stop, subIdx, connected, revokeCalls,
                   revokeRes,
                   extVars, recvVars, dedupVars, now>>

\* The finally block of _run_once with a token: delete_ws_token is called.
EnterRevoke ==
    /\ sup' = "revoking"
    /\ revokeCalls' = revokeCalls + 1

\* async with websockets.connect(ws_url, ping_interval=None) as ws
SupConnect ==
    /\ sup = "connecting"
    /\ \E ok \in BOOLEAN :
         IF ok
         THEN /\ sup' = "subscribing"
              /\ UNCHANGED <<pendingErr, revokeCalls>>
         ELSE /\ pendingErr' = TRUE
              /\ EnterRevoke
    /\ UNCHANGED <<cfgVars, monVars, stop, backoff, token, subIdx, fails,
                   connected,
                   sinceEnd, lastDelay, revokeRes, extVars, recvVars,
                   dedupVars, now>>

\* await ws.send(subscribe) for the next channel; after the last one the
\* two tasks are created and asyncio.wait is entered.
SupSubscribe ==
    /\ sup = "subscribing"
    /\ \E ok \in BOOLEAN :
         IF ~ok
         THEN /\ pendingErr' = TRUE
              /\ sup' = "closing"
              /\ UNCHANGED <<subIdx, connected, extPc, extToken, recvPc,
                             recvErr>>
         ELSE IF subIdx < Len(AlertChannels)
         THEN /\ subIdx' = subIdx + 1
              /\ UNCHANGED <<sup, pendingErr, connected, extPc, extToken,
                             recvPc, recvErr>>
         ELSE /\ sup' = "waiting"
              /\ connected' = TRUE
              /\ extPc' = "start"
              /\ extToken' = "current"
              /\ recvPc' = "start"
              /\ recvErr' = FALSE
              /\ UNCHANGED <<subIdx, pendingErr>>
    /\ UNCHANGED <<cfgVars, monVars, stop, backoff, token, fails, sinceEnd,
                   lastDelay,
                   revokeCalls, revokeRes, extRes, pdResult, handled, trigKey,
                   recvObs, dedupVars, now>>

\* asyncio.wait(FIRST_COMPLETED) returns: the pending tasks get cancel(),
\* which only requests the cancellation, and the done ones give their
\* result; nothing awaits the cancelled tasks.
SupWaitDone ==
    /\ sup = "waiting"
    /\ extPc = "done" \/ recvPc = "done"
    /\ extPc' = IF extPc = "done" THEN "done" ELSE "cancel"
    /\ recvPc' = IF recvPc = "done" THEN "done" ELSE "cancel"
    /\ pendingErr' = (recvPc = "done" /\ recvErr)
    /\ sup' = "closing"
    /\ UNCHANGED <<cfgVars, monVars, stop, backoff, token, subIdx, fails,
                   connected,
                   sinceEnd, lastDelay, revokeCalls, revokeRes, extRes,
                   extToken, recvErr, pdResult, handled, trigKey, recvObs,
                   dedupVars, now>>

\* Leaving `async with`: the stream is closed, then the finally block runs.
SupClose ==
    /\ sup = "closing"
    /\ EnterRevoke
    /\ UNCHANGED <<cfgVars, monVars, stop, backoff, token, subIdx, fails,
                   connected,
                   sinceEnd, lastDelay, pendingErr, revokeRes, extVars,
                   recvVars, dedupVars, now>>

\* delete_ws_token returns or raises (swallowed), the clients are closed and
\* _run_once ends the way it was ending.
SupRevokeRaises ==
    /\ sup = "revoking"
    /\ \E ok \in BOOLEAN :
         /\ revokeRes' = IF ok THEN "ok" ELSE "fail"
         /\ IF pendingErr \/ ~ok THEN EndRaise ELSE EndReturn
    /\ UNCHANGED <<cfgVars, monVars, stop, token, subIdx, connected, pendingErr,
                   revokeCalls, extVars, recvVars, dedupVars, now>>

SupRevoke ==
    /\ sup = "revoking"
    /\ \E ok \in BOOLEAN :
         /\ revokeRes' = IF ok THEN "ok" ELSE "fail"
         /\ IF pendingErr THEN EndRaise ELSE EndReturn
    /\ UNCHANGED <<cfgVars, monVars, stop, token, subIdx, connected, pendingErr,
                   revokeCalls, extVars, recvVars, dedupVars, now>>

\* wait_for(stop.wait(), timeout=backoff) ends, by the timeout or by stop,
\* and backoff is doubled up to the maximum.
SupBackoffEnd ==
    /\ sup = "backoff"
    /\ lastDelay' = backoff
    /\ backoff' = next_backoff(backoff)
    /\ sinceEnd' = "slept"
    /\ sup' = "loop"
    /\ UNCHANGED <<cfgVars, monVars, stop, token, subIdx, fails, connected,
                   pendingErr,
                   revokeCalls, revokeRes, extVars, recvVars, dedupVars, now>>

\* ------------------------------------------------------ _extend_token_loop
\* The task's first step: the loop condition, then the wait on stop.
ExtStart ==
    /\ extPc = "start"
    /\ extPc' = IF stop THEN "done" ELSE "sleep"
    /\ UNCHANGED <<extRes, extToken, cfgVars, monVars, stop, supVars, recvVars,
                   dedupVars, now>>

\* A wait that does not listen to stop.
ExtSleepsOn ==
    /\ extPc = "sleep"
    /\ stop
    /\ UNCHANGED vars

\* stop.wait() returned inside wait_for: return.
ExtStopWake ==
    /\ extPc = "sleep"
    /\ stop
    /\ extPc' = "done"
    /\ UNCHANGED <<extRes, extToken, cfgVars, monVars, stop, supVars, recvVars,
                   dedupVars, now>>

\* wait_for timed out: extend_ws_token(token) is called. The timeout can win
\* against a stop set in the same turn of the event loop.
ExtTimeout ==
    /\ extPc = "sleep"
    /\ extPc' = "call"
    /\ UNCHANGED <<extRes, extToken, cfgVars, monVars, stop, supVars, recvVars,
                   dedupVars, now>>

\* extend_ws_token raising out of the task instead of being logged.
ExtCallRaises ==
    /\ extPc = "call"
    /\ \E ok \in BOOLEAN :
         /\ extRes' = IF ok THEN "ok" ELSE "fail"
         /\ extPc' = IF stop \/ ~ok THEN "done" ELSE "sleep"
    /\ UNCHANGED <<extToken, cfgVars, monVars, stop, supVars, recvVars,
                   dedupVars,
                   now>>

\* extend_ws_token returned or raised (logged); the loop condition follows.
ExtCallReturn ==
    /\ extPc = "call"
    /\ \E ok \in BOOLEAN : extRes' = IF ok THEN "ok" ELSE "fail"
    /\ extPc' = IF stop THEN "done" ELSE "sleep"
    /\ UNCHANGED <<extToken, cfgVars, monVars, stop, supVars, recvVars,
                   dedupVars,
                   now>>

\* A task that swallows the CancelledError and goes on to its next call.
ExtIgnoresCancel ==
    /\ extPc = "cancel"
    /\ extPc' = "call"
    /\ UNCHANGED <<extRes, extToken, cfgVars, monVars, stop, supVars, recvVars,
                   dedupVars, now>>

\* The CancelledError reaches the task at its await and ends it.
ExtCancelled ==
    /\ extPc = "cancel"
    /\ extPc' = "done"
    /\ UNCHANGED <<extRes, extToken, cfgVars, monVars, stop, supVars, recvVars,
                   dedupVars, now>>

\* --------------------------------------------------------------- _recv_loop
RecvStart ==
    /\ recvPc = "start"
    /\ recvPc' = "wait"
    /\ UNCHANGED <<cfgVars, monVars, stop, supVars, extVars, recvErr,
                   pdResult, handled,
                   trigKey, recvObs, dedupVars, now>>

\* What a frame is: not JSON, JSON but not an object, or the channel of the
\* object it carries.
FrameTag(kind, event) == IF kind = "object" THEN event.channel ELSE kind

\* json.loads accepting any JSON text as an event.
anyJsonPasses(kind) == kind # "garbage"

\* json.loads(raw) succeeded and isinstance(event, dict) holds.
isinstance_dict(kind) == kind = "object"

\* A loop that drops no channel.
anyChannelPasses(ch) == TRUE

\* `ch not in channels` is false.
in_channels(ch) == ch \in Range(AlertChannels)

\* PagerDutyClient without its dry-run returns.
pdSendsAlways(dry_run) == TRUE

\* `if self._dry_run: return` of trigger and resolve: the POST is sent only
\* when dry_run is off.
pd_sends(dry_run) == ~dry_run

\* A loop that takes the next frame while pd.trigger is still awaited.
LoopHeadWhileTriggering == recvPc \in {"wait", "trigger"}

\* recv_task is suspended in `async for raw in ws`.
AtLoopHead == recvPc = "wait"

\* One frame from `async for raw in ws`, handled up to the next await; the
\* clock reads at most `limit`.
RecvFrameBy(limit) ==
    /\ AtLoopHead
    /\ handled < MaxMsgs
    /\ handled' = handled + 1
    /\ \E kind \in FrameKinds :
         IF stop
         THEN /\ recvPc' = "done"
              /\ recvErr' = FALSE
              /\ lastFrame' = "unread"
              /\ reAlerted' = FALSE
              /\ UNCHANGED <<malformedSeen, cycleKeys>>
              /\ callKey' = NoKey
              /\ trigKey' = NoKey
              /\ UNCHANGED <<seen, ret, watch, hit, evicted, lru, pdResult,
                             posted, pdOp, now>>
         ELSE IF ~isinstance_dict(kind)
         THEN /\ lastFrame' = kind
              /\ malformedSeen' = TRUE
              /\ reAlerted' = FALSE
              /\ UNCHANGED cycleKeys
              /\ callKey' = NoKey
              /\ trigKey' = NoKey
              /\ UNCHANGED <<recvPc, recvErr, seen, ret, watch, hit, evicted,
                             lru, pdResult, posted, pdOp, now>>
         ELSE \E event \in Events :
              /\ lastFrame' = FrameTag(kind, event)
              /\ malformedSeen' = (malformedSeen \/ kind # "object")
              /\ UNCHANGED recvErr
              /\ IF ~in_channels(event.channel)
                 THEN /\ callKey' = NoKey
                      /\ trigKey' = NoKey
                      /\ reAlerted' = FALSE
                      /\ UNCHANGED <<recvPc, seen, ret, watch, hit, evicted,
                                     lru, pdResult, posted, pdOp, now,
                                     cycleKeys>>
                 ELSE LET key == dedup_key_for_event(event) IN
                      /\ \E t \in ClockReads(limit) : DedupCall(key, t)
                      /\ cycleKeys' = cycleKeys \cup {key}
                      /\ reAlerted' = /\ ~ret'
                                      /\ key \notin cycleKeys
                                      /\ watch.key = key
                                      /\ now' < watch.t + TtlSec
                      /\ IF ret'
                         THEN /\ trigKey' = NoKey
                              /\ UNCHANGED <<recvPc, pdResult, posted, pdOp>>
                         ELSE /\ trigKey' = key
                              /\ pdOp' = "trigger"
                              /\ IF pd_sends(cfgDryRun)
                                 THEN /\ recvPc' = "trigger"
                                      /\ posted' = TRUE
                                      /\ UNCHANGED pdResult
                                 ELSE /\ pdResult' = "ok"
                                      /\ UNCHANGED <<recvPc, posted>>
    /\ UNCHANGED <<cfgVars, monVars, stop, supVars, extVars>>

RecvFrame == RecvFrameBy(Burst)

\* A frame that arrives in the second of the previous one.
RecvFrameAtOnce == RecvFrameBy(now)

\* pd.trigger raising out of the loop instead of being logged.
RecvTriggerRaises ==
    /\ recvPc = "trigger"
    /\ \E ok \in BOOLEAN :
         /\ pdResult' = IF ok THEN "ok" ELSE "fail"
         /\ recvPc' = IF ok THEN "wait" ELSE "done"
         /\ recvErr' = ~ok
    /\ UNCHANGED <<cfgVars, monVars, stop, supVars, extVars, handled, trigKey,
                   recvObs, dedupVars, now>>

\* The POST of pd.trigger was acknowledged or failed (logged): next frame.
RecvTriggerReturn ==
    /\ recvPc = "trigger"
    /\ \E ok \in BOOLEAN : pdResult' = IF ok THEN "ok" ELSE "fail"
    /\ recvPc' = "wait"
    /\ UNCHANGED <<cfgVars, monVars, stop, supVars, extVars, recvErr, handled,
                   trigKey,
                   recvObs, dedupVars, now>>

\* The stream closes normally (the iteration ends) or with an error.
RecvStreamEnd ==
    /\ recvPc = "wait"
    /\ \E err \in BOOLEAN : recvErr' = err
    /\ recvPc' = "done"
    /\ UNCHANGED <<cfgVars, monVars, stop, supVars, extVars, pdResult,
                   handled, trigKey,
                   recvObs, dedupVars, now>>

RecvCancelled ==
    /\ recvPc = "cancel"
    /\ recvPc' = "done"
    /\ UNCHANGED <<cfgVars, monVars, stop, supVars, extVars, recvErr,
                   pdResult, handled,
                   trigKey, recvObs, dedupVars, now>>

\* --------------------------------------------------------- specifications
Next ==
    \/ SupLoop
    \/ SupCreateToken
    \/ SupConnect
    \/ SupSubscribe
    \/ SupWaitDone
    \/ SupClose
    \/ SupRevoke
    \/ SupBackoffEnd
    \/ ExtStart
    \/ ExtStopWake
    \/ ExtTimeout
    \/ ExtCallReturn
    \/ ExtCancelled
    \/ RecvStart
    \/ RecvFrame
    \/ RecvTriggerReturn
    \/ RecvStreamEnd
    \/ RecvCancelled
    \/ SetStop

Spec == Init /\ [][Next]_vars

\* What a running event loop guarantees: a coroutine that can take its next
\* step takes it, and every external call returns or fails. Nothing is
\* assumed of the stream, of the clock or of the signal.
Fairness ==
    /\ WF_vars(SupLoop)
    /\ WF_vars(SupCreateToken)
    /\ WF_vars(SupConnect)
    /\ WF_vars(SupSubscribe)
    /\ WF_vars(SupWaitDone)
    /\ WF_vars(SupClose)
    /\ WF_vars(SupRevoke)
    /\ WF_vars(SupBackoffEnd)
    /\ WF_vars(ExtStart)
    /\ WF_vars(ExtStopWake)
    /\ WF_vars(ExtCallReturn)
    /\ WF_vars(ExtCancelled)
    /\ WF_vars(RecvStart)
    /\ WF_vars(RecvTriggerReturn)
    /\ WF_vars(RecvCancelled)

\* The process with all frames of a run arriving in the same second, under
\* that fairness.
NextAtOnce ==
    \/ SupLoop
    \/ SupCreateToken
    \/ SupConnect
    \/ SupSubscribe
    \/ SupWaitDone
    \/ SupClose
    \/ SupRevoke
    \/ SupBackoffEnd
    \/ ExtStart
    \/ ExtStopWake
    \/ ExtTimeout
    \/ ExtCallReturn
    \/ ExtCancelled
    \/ RecvStart
    \/ RecvFrameAtOnce
    \/ RecvTriggerReturn
    \/ RecvStreamEnd
    \/ RecvCancelled
    \/ SetStop

FairSpec == Init /\ [][NextAtOnce]_vars /\ Fairness

\* An upstream outage: no frame arrives and the clock is not observed.
NextOutage ==
    \/ SupLoopOutage
    \/ SupCreateToken
    \/ SupConnect
    \/ SupSubscribe
    \/ SupWaitDone
    \/ SupClose
    \/ SupRevoke
    \/ SupBackoffEnd
    \/ ExtStart
    \/ ExtStopWake
    \/ ExtTimeout
    \/ ExtCallReturn
    \/ ExtCancelled
    \/ RecvStart
    \/ RecvStreamEnd
    \/ RecvCancelled
    \/ SetStop

SpecOutage == Init /\ [][NextOutage]_vars

\* ------------------------------------------------- DedupCache on its own
DirectCall ==
    /\ handled < MaxCalls
    /\ \E key \in KeySet, t \in ClockReads(MaxTime) : DedupCall(key, t)
    /\ handled' = handled + 1
    /\ UNCHANGED <<cfgVars, monVars, stop, supVars, extVars, recvPc, recvErr,
                   pdResult,
                   trigKey, recvObs>>

InitDedup == Init /\ cfgMonitor = FALSE /\ cfgDryRun = FALSE

NextDedup == DirectCall

SpecDedup == InitDedup /\ [][NextDedup]_vars

\* ------------------------------------------- PagerDutyClient on its own
\* The dedup keys the client is called with: those of stream events and the
\* process monitor's fixed one.
PdKeys == KeySet \cup {<<"ml-job-monitoring">>}

\* What becomes of a POST to the Events API: accepted (202), refused, or a
\* transport error.
HttpOutcomes == {"202", "400", "error"}

\* One call of `op` (trigger or resolve), from its entry to its return or
\* raise.
PdCall(op) ==
    /\ handled < MaxCalls
    /\ handled' = handled + 1
    /\ pdOp' = op
    /\ \E key \in PdKeys, http \in HttpOutcomes :
         /\ trigKey' = key
         /\ IF pd_sends(cfgDryRun)
            THEN /\ posted' = TRUE
                 /\ pdResult' = IF http = "202" THEN "ok" ELSE "fail"
            ELSE /\ pdResult' = "ok"
                 /\ UNCHANGED posted
    /\ UNCHANGED <<cfgVars, monVars, stop, supVars, extVars, recvPc, recvErr,
                   lastFrame, malformedSeen, cycleKeys, reAlerted, dedupVars,
                   now>>

PdTrigger == PdCall("trigger")

PdResolve == PdCall("resolve")

NextPager == PdTrigger \/ PdResolve

SpecPager == Init /\ [][NextPager]_vars

\* -------------------------------------------- ProcessMonitor on its own
\* What monitor_loop leaves unchanged: everything outside the monitor, the
\* stop event and the PagerDuty client it calls.
monFrame == <<cfgVars, supVars, extVars, recvPc, recvErr, lastFrame,
              malformedSeen, cycleKeys, reAlerted, dedupVars>>

\* `while not stop.is_set()`
MonLoopHead == IF stop THEN "done" ELSE "sleep"

\* monitor_loop is called and reaches its first wait.
MonStart ==
    /\ monPc = "none"
    /\ monPc' = MonLoopHead
    /\ UNCHANGED <<monFrame, stop, now, lastSeenTime, hasNotified, procs,
                   presentAt, pdOp, pdResult, posted, handled, trigKey>>

\* wait_for(stop.wait(), check_interval_sec) returned: the loop returns.
MonStopWake ==
    /\ monPc = "sleep"
    /\ stop
    /\ monPc' = "done"
    /\ UNCHANGED <<monFrame, stop, now, lastSeenTime, hasNotified, procs,
                   presentAt, pdOp, pdResult, posted, handled, trigKey>>

\* What `ps aux` gives one check: lines that match the pattern, none that
\* do, or a failure to run.
PsResults == {"matching", "none", "error"}

\* _find_matching_processes returned a non-empty list.  A failed `ps` is
\* logged and gives the empty list.
find_matching_processes(ps) == ps = "matching"

\* The wait timed out: one process check, up to the next suspension.  The
\* process table and the clock are the environment's.
MonCheck ==
    /\ monPc = "sleep"
    /\ \E ps \in PsResults, t \in ClockReads(MaxTime) :
         LET found == find_matching_processes(ps) IN
         /\ procs' = found
         /\ now' = t
         /\ presentAt' = IF found THEN t ELSE presentAt
         /\ IF found
            THEN IF lastSeenTime = NoTime /\ hasNotified
                 THEN \* await self._resolve_incident(pd)
                      /\ monPc' = "resolve"
                      /\ pdOp' = "resolve"
                      /\ handled' = handled + 1
                      /\ trigKey' = <<"ml-job-monitoring">>
                      /\ UNCHANGED <<lastSeenTime, hasNotified>>
                 ELSE /\ lastSeenTime' = t
                      /\ monPc' = MonLoopHead
                      /\ UNCHANGED <<hasNotified, pdOp, handled, trigKey>>
            ELSE IF /\ lastSeenTime # NoTime
                    /\ t - lastSeenTime >= IdleSec
                    /\ ~hasNotified
                 THEN \* await self._send_completion_notification(pd)
                      /\ monPc' = "trigger"
                      /\ pdOp' = "trigger"
                      /\ handled' = handled + 1
                      /\ trigKey' = <<"ml-job-monitoring">>
                      /\ UNCHANGED <<lastSeenTime, hasNotified>>
                 ELSE /\ monPc' = MonLoopHead
                      /\ UNCHANGED <<lastSeenTime, hasNotified, pdOp,
                                     handled, trigKey>>
    /\ UNCHANGED <<monFrame, stop, pdResult, posted>>

\* As if _send_completion_notification logged a failed trigger and returned.
MonTriggerSwallows ==
    /\ monPc = "trigger"
    /\ \E http \in HttpOutcomes :
         /\ posted' = (posted \/ pd_sends(cfgDryRun))
         /\ pdResult' = IF pd_sends(cfgDryRun) /\ http # "202"
                        THEN "fail" ELSE "ok"
         /\ IF pdResult' = "ok"
            THEN /\ hasNotified' = TRUE
                 /\ lastSeenTime' = NoTime
            ELSE UNCHANGED <<hasNotified, lastSeenTime>>
         /\ monPc' = MonLoopHead
    /\ UNCHANGED <<monFrame, stop, now, procs, presentAt, pdOp, handled,
                   trigKey>>

\* pd.trigger returned or raised.  _send_completion_notification logs a
\* failure and raises it again: monitor_loop ends with the exception, its
\* flags untouched.
MonTriggerReturn ==
    /\ monPc = "trigger"
    /\ \E http \in HttpOutcomes :
         /\ posted' = (posted \/ pd_sends(cfgDryRun))
         /\ pdResult' = IF pd_sends(cfgDryRun) /\ http # "202"
                        THEN "fail" ELSE "ok"
         /\ IF pdResult' = "ok"
            THEN /\ hasNotified' = TRUE
                 /\ lastSeenTime' = NoTime
                 /\ monPc' = MonLoopHead
            ELSE /\ monPc' = "done"
                 /\ UNCHANGED <<hasNotified, lastSeenTime>>
    /\ UNCHANGED <<monFrame, stop, now, procs, presentAt, pdOp, handled,
                   trigKey>>

\* pd.resolve returned or raised.  _resolve_incident logs a failure and
\* returns; the loop clears the flag and records the check's time.
MonResolveReturn ==
    /\ monPc = "resolve"
    /\ \E http \in HttpOutcomes :
         /\ posted' = (posted \/ pd_sends(cfgDryRun))
         /\ pdResult' = IF pd_sends(cfgDryRun) /\ http # "202"
                        THEN "fail" ELSE "ok"
    /\ hasNotified' = FALSE
    /\ lastSeenTime' = now
    /\ monPc' = MonLoopHead
    /\ UNCHANGED <<monFrame, stop, now, procs, presentAt, pdOp, handled,
                   trigKey>>

\* The task running monitor_loop is cancelled: CancelledError ends it at the
\* await it is suspended in.
MonCancelled ==
    /\ monPc \in {"sleep", "trigger", "resolve"}
    /\ monPc' = "done"
    /\ UNCHANGED <<monFrame, stop, now, lastSeenTime, hasNotified, procs,
                   presentAt, pdOp, pdResult, posted, handled, trigKey>>

NextMonitor ==
    \/ SetStop
    \/ MonStart
    \/ MonStopWake
    \/ MonCheck
    \/ MonTriggerReturn
    \/ MonResolveReturn
    \/ MonCancelled

SpecMonitor == Init /\ [][NextMonitor]_vars

\* =================================================================== claims
\* A frame on a subscribed channel was handled in this step and its key is
\* the key of the insertion the observer follows, less than ttl_sec after it.
SameKeyWithinTtl ==
    /\ handled' # handled
    /\ watch # NoWatch
    /\ callKey' = watch.key
    /\ now' < watch.t + TtlSec

\* C1: of two events on a subscribed channel with the same dedup key that
\* arrive less than ttl_sec apart in one run of the process, exactly one
\* leads to a pd.trigger call: the first one did (it inserted the key), so
\* the second one must not.
C1_AtMostOnce == [][SameKeyWithinTtl => trigKey' = NoKey]_vars

\* C2: once CONNECTING has succeeded (token created, stream opened, channels
\* subscribed) the supervisor's delay is back at base, so the next failure
\* waits base seconds.
C2_ResetOnConnect == connected => backoff = BackoffBase

\* The delays 1, 2, 4, 8, 16, 30, 30 of base = 1 and max = 30.
DelaySeq == <<1, 2, 4, 8, 16, 30, 30>>

\* C3: the delay of the wait after the k-th consecutive failed cycle is
\* min(base * 2^(k-1), max), which for base 1 and max 30 is 1, 2, 4, 8, 16,
\* 30, 30; it is never below the previous delay and never above max.
C3_BackoffSequence ==
    sup = "backoff" =>
        /\ backoff = Min(BackoffBase * 2^(fails - 1), BackoffMax)
        /\ (fails <= Len(DelaySeq) => backoff = DelaySeq[fails])
        /\ lastDelay <= backoff
        /\ backoff <= BackoffMax

\* The seventh consecutive failure waits 30 seconds, as the sixth did.
C3_Witness ==
    /\ sup = "backoff"
    /\ fails = 7
    /\ backoff = 30
    /\ lastDelay = 30
    /\ ~stop

\* C4: a new cycle starts only at process start or after a backoff wait: the
\* supervisor never goes from teardown straight to connecting.
C4_BackoffBeforeReconnect ==
    [][(sup = "loop" /\ sup' \in {"creating", "backoff"})
         => sinceEnd # "ended"]_vars

\* C5: once stop is set the supervisor reaches STOPPED, and no cycle is
\* started while stop is set.
C5_StopLeadsToStopped ==
    /\ stop ~> (sup = "stopped")
    /\ [][stop => ~(sup = "loop" /\ sup' \in {"creating", "backoff"})]_vars

\* Stopped after a cycle that had a token and was torn down.
C5_Witness ==
    /\ stop
    /\ sup = "stopped"
    /\ token # "none"
    /\ revokeCalls = 1

\* C6: while the supervisor is connecting, no task of an earlier cycle is
\* still to terminate.
C6_NoTaskLeftOver ==
    sup \in {"creating", "connecting", "subscribing"} =>
        /\ extPc \in {"none", "done"}
        /\ recvPc \in {"none", "done"}

\* _run_once has ended and _runner has not started the next cycle.
CycleOver == sup \in {"loop", "backoff", "stopped"} /\ sinceEnd # "fresh"

\* C7: a cycle that created a token ends with exactly one delete_ws_token
\* call, and it ends by an exception exactly when one was in flight before
\* the call, whatever the call's outcome.
C7_RevokedOnce ==
    /\ revokeCalls <= 1
    /\ (CycleOver /\ token # "none") =>
          /\ revokeCalls = 1
          /\ (fails > 0) = pendingErr

\* A cycle returned normally although its delete_ws_token call failed.
C7_Witness ==
    /\ CycleOver
    /\ token # "none"
    /\ revokeRes = "fail"
    /\ ~pendingErr
    /\ fails = 0

\* A step in which seen_recently was called with the key of the insertion
\* the observer follows.
CallOnWatched ==
    /\ handled' # handled
    /\ watch # NoWatch
    /\ callKey' = watch.key

\* C8 (as stated): a key inserted at time t is reported seen by every later
\* call before t + ttl, whatever other keys were passed in between, and is
\* reported not seen by a call at or after t + ttl when it was not hit in
\* between.
C8_AsStated ==
    [][CallOnWatched =>
         /\ (now' < watch.t + TtlSec => ret' = TRUE)
         /\ (now' >= watch.t + TtlSec /\ ~watch.hit => ret' = FALSE)]_vars

\* C8 (amended): a key inserted at time t and not evicted by the max_keys
\* bound since is reported seen by every later call before t + ttl; a call at
\* or after t + ttl, with no hit on the key in between, reports it not seen.
C8_WhileResident ==
    [][CallOnWatched =>
         /\ (now' < watch.t + TtlSec /\ ~watch.evicted => ret' = TRUE)
         /\ (now' >= watch.t + TtlSec /\ ~watch.hit => ret' = FALSE)]_vars

\* A hit on the followed key inside its window, after another key was inserted
\* in between.
C8_Witness ==
    /\ watch # NoWatch
    /\ callKey = watch.key
    /\ ret = TRUE
    /\ watch.hit
    /\ now > watch.t
    /\ now < watch.t + TtlSec
    /\ \E i \in 1..Len(seen) : seen[i].key # watch.key /\ seen[i].ts > watch.t

\* C9: after any seen_recently call the cache holds at most max_keys entries.
C9_AtMostMaxKeys == Len(seen) <= MaxKeys

\* The cache is full and the followed key was evicted by the bound.
C9_Witness ==
    /\ Len(seen) = MaxKeys
    /\ watch.evicted
    /\ watch.key \notin Keys(seen)

\* C10: when a pd.trigger call fails, the receive task goes back to waiting
\* for the next frame and the supervisor stays where it is.
C10_TriggerFailureIsolated ==
    [][(recvPc = "trigger" /\ recvPc' \notin {"trigger", "cancel"}
          /\ pdResult' = "fail")
         => (recvPc' = "wait" /\ ~recvErr' /\ sup' = sup)]_vars

\* A later frame of the same cycle reached its own pd.trigger call after an
\* earlier call had failed.
C10_Witness ==
    /\ pdResult = "fail"
    /\ recvPc = "trigger"
    /\ sup = "waiting"

\* C11: a frame that is not JSON, or is JSON but not an object, leads to no
\* pd.trigger call, leaves the dedup cache as it was and leaves recv_task at
\* the head of its loop, where the next frame is read.
C11_MalformedIgnored ==
    [][(handled' # handled /\ lastFrame' \in {"garbage", "array"})
         => /\ seen' = seen
            /\ trigKey' = NoKey
            /\ pdOp' = pdOp
            /\ posted' = posted
            /\ pdResult' = pdResult
            /\ recvPc' = "wait"
            /\ ~recvErr']_vars

\* After a malformed frame, an event of the same cycle reached pd.trigger.
C11_Witness ==
    /\ malformedSeen
    /\ lastFrame = "executionEvents"
    /\ trigKey # NoKey
    /\ recvPc = "trigger"
    /\ sup = "waiting"

\* C12: a failed extend_ws_token call leaves extend_task running (it goes
\* back to its wait unless stop is set) and the supervisor where it is; the
\* supervisor leaves asyncio.wait only when recv_task has ended or stop is
\* set.
C12_RenewalFailureIsolated ==
    /\ [][(extPc = "call" /\ extPc' \notin {"call", "cancel"}
            /\ extRes' = "fail")
           => /\ extPc' = (IF stop THEN "done" ELSE "sleep")
              /\ sup' = sup]_vars
    /\ [][(sup = "waiting" /\ sup' # "waiting")
           => (recvPc = "done" \/ stop)]_vars

\* The next extend_ws_token call of a cycle is in flight after one that
\* failed.
C12_Witness ==
    /\ extRes = "fail"
    /\ extPc = "call"
    /\ sup = "waiting"
    /\ ~stop

\* C13: recv_task handles one frame at a time, in arrival order: a frame is
\* read only at the head of the loop, when no pd.trigger call is awaited; a
\* pd.trigger call is started only by the frame just read, with that frame's
\* key; and the call awaited is always the one of the last frame read.
C13_OneAtATime ==
    /\ [][handled' # handled => recvPc = "wait"]_vars
    /\ [][(recvPc' = "trigger" /\ recvPc # "trigger")
           => (handled' = handled + 1 /\ trigKey' = callKey')]_vars
    /\ [](recvPc = "trigger" => (trigKey # NoKey /\ trigKey = callKey))

\* The second frame's pd.trigger call is awaited after the first frame's call
\* was acknowledged.
C13_Witness ==
    /\ recvPc = "trigger"
    /\ pdResult = "ok"
    /\ handled = 2
    /\ ~malformedSeen
    /\ sinceEnd = "fresh"

\* C14: with dry_run on, every trigger and every resolve call returns
\* normally and no request is ever sent to the Events API, whatever calls
\* are made.
C14_DryRunSendsNothing ==
    cfgDryRun => (~posted /\ (pdOp # "none" => pdResult = "ok"))

\* A resolve call returned in dry-run mode after other calls.
C14_Witness ==
    /\ cfgDryRun
    /\ pdOp = "resolve"
    /\ pdResult = "ok"
    /\ handled >= 2

\* C15: with the process monitor enabled, a cycle that starts goes on to
\* create its token, connect and subscribe, and so can reach RUNNING with
\* its tasks: it does not fail before the token is requested.
C15_MonitorCycleRuns ==
    [][(cfgMonitor /\ ~stop /\ sup = "loop" /\ sup' # "loop")
         => sup' = "creating"]_vars

\* C16 (as stated): after a seen_recently call that read the clock at `now`,
\* no entry of the cache is older than ttl_sec.
C16_AgeWithinTtl ==
    \A i \in 1..Len(seen) : now - seen[i].ts <= TtlSec

\* C16 (amended): after a seen_recently call that read the clock at `now`,
\* every entry that was not hit since it was inserted is younger than
\* ttl_sec.
C16_UnhitWithinTtl ==
    (watch # NoWatch /\ ~watch.hit /\ watch.key \in Keys(seen))
        => \E i \in 1..Len(seen) :
              /\ seen[i] = [key |-> watch.key, ts |-> watch.t]
              /\ now - seen[i].ts < TtlSec

\* An entry that was hit is resident past its TTL, next to one that was not
\* hit and is younger than the TTL.
C16_Witness ==
    /\ Len(seen) = 2
    /\ \E i, j \in 1..2 :
          /\ now - seen[i].ts > TtlSec
          /\ now - seen[j].ts < TtlSec
          /\ watch.key = seen[j].key
          /\ ~watch.hit

\* C17: once stop is set, extend_task starts no extend_ws_token call.
C17_NoExtendAfterStop ==
    [][stop => ~(extPc # "call" /\ extPc' = "call")]_vars

\* The entries of cache s other than the one of `key` are the last entries
\* of cache old other than that one, in the same order.
RestKept(old, s, key) ==
    LET a == Without(old, key)
        b == Without(s, key)
    IN /\ Len(b) <= Len(a)
       /\ b = SubSeq(a, Len(a) - Len(b) + 1, Len(a))

\* C18: a seen_recently(k) call that finds k present moves k's entry, with
\* the timestamp it had, to the most-recently-used end, and leaves the other
\* entries it keeps as they were and in their order; when more than ttl_sec
\* has passed since that timestamp the call returns false, and k stays
\* resident.
C18_HitKeepsTimestamp ==
    [][(handled' # handled /\ hit')
         => /\ \E i \in 1..Len(seen) :
                  /\ seen[i].key = callKey'
                  /\ seen'[Len(seen')] = seen[i]
            /\ RestKept(seen, seen', callKey')
            /\ ret' = (now' - seen'[Len(seen')].ts <= TtlSec)]_vars

\* A call found its key present past its TTL and returned false; the key
\* is resident with the timestamp of its insertion.
C18_Witness ==
    /\ hit
    /\ watch.hit
    /\ watch.key = callKey
    /\ ret = FALSE
    /\ now - watch.t > TtlSec
    /\ seen[Len(seen)] = [key |-> callKey, ts |-> watch.t]

\* The channels of well-formed frames that cfg.alert_channels leaves out.
OtherChannels == {e.channel : e \in Events} \ Range(AlertChannels)

\* C19: an object frame whose channel is not subscribed is dropped:
\* seen_recently is not called (the cache and the clock reading are as they
\* were), pd.trigger is not called, and recv_task stays at the head of its
\* loop.
C19_UnsubscribedDropped ==
    [][(handled' # handled /\ lastFrame' \in OtherChannels)
         => /\ seen' = seen
            /\ now' = now
            /\ callKey' = NoKey
            /\ trigKey' = NoKey
            /\ pdOp' = pdOp
            /\ posted' = posted
            /\ pdResult' = pdResult
            /\ recvPc' = recvPc]_vars

\* An orderEvents frame was dropped while the cache held a key.
C19_Witness ==
    /\ lastFrame = "orderEvents"
    /\ seen # <<>>
    /\ callKey = NoKey
    /\ recvPc = "wait"
    /\ sup = "waiting"

\* Where key k stands in the recency list.
PosIn(list, k) == CHOOSE i \in 1..Len(list) : list[i] = k

\* C20: when the insertion of a new key exceeds max_keys, the key inserted
\* is not evicted, and every key evicted was inserted or hit less recently
\* than every other key that stays.
C20_EvictsLeastRecent ==
    [][(handled' # handled /\ callKey' # NoKey /\ ~hit')
         => /\ callKey' \in Keys(seen')
            /\ callKey' \notin evicted'
            /\ \A a \in evicted', b \in Keys(seen') \ {callKey'} :
                  /\ a \in Range(lru)
                  /\ b \in Range(lru)
                  /\ PosIn(lru, a) < PosIn(lru, b)]_vars

\* An insertion evicted a key by the bound while a key that had been hit
\* stayed, now at the head.
C20_Witness ==
    /\ ~hit
    /\ evicted # {}
    /\ Len(seen) = MaxKeys
    /\ seen[Len(seen)].key = callKey
    /\ seen[1] = [key |-> watch.key, ts |-> watch.t]
    /\ watch.hit

\* C21: the supervisor starts every cycle with an empty cache, and the first
\* event of a cycle with a given key on a subscribed channel is reported not
\* seen and leads to a pd.trigger call with that key.
C21_FreshCachePerCycle ==
    /\ []((sup \in {"creating", "connecting", "subscribing"})
            => (seen = <<>> /\ cycleKeys = {}))
    /\ [][(handled' # handled /\ callKey' # NoKey
            /\ callKey' \notin cycleKeys)
           => /\ ret' = FALSE
              /\ trigKey' = callKey'
              /\ pdOp' = "trigger"]_vars

\* pd.trigger was called for a key that was inserted, and alerted, less than
\* ttl_sec earlier in an earlier cycle.
C21_Witness ==
    /\ reAlerted
    /\ trigKey = callKey
    /\ trigKey # NoKey
    /\ sinceEnd # "fresh"
    /\ sup = "waiting"

\* C22: an extend_ws_token call begins only while the supervisor is in
\* asyncio.wait of the cycle that created the task: the token the task holds
\* is that cycle's, and delete_ws_token has not been called for it.
C22_ExtendOnLiveToken ==
    [][(extPc # "call" /\ extPc' = "call")
         => /\ extToken = "current"
            /\ token # "none"
            /\ revokeCalls = 0
            /\ sup = "waiting"]_vars

\* An extend_ws_token call is in flight in a cycle that is not the first.
C22_Witness ==
    /\ extPc = "call"
    /\ extToken = "current"
    /\ sinceEnd # "fresh"
    /\ sup = "waiting"
    /\ revokeCalls = 0

\* C23: monitor_loop calls pd.trigger only at a check that finds no matching
\* process, after a check did find one, at least idle_threshold_sec after the
\* last check that did, and never when its previous PagerDuty call was a
\* trigger; it calls pd.resolve only at a check that finds matching processes
\* after one that found none, when its previous PagerDuty call was a trigger.
C23_TriggerResolveAlternate ==
    [][/\ (monPc # "trigger" /\ monPc' = "trigger")
            => /\ ~procs'
               /\ presentAt # NoTime
               /\ now' - presentAt >= IdleSec
               /\ pdOp # "trigger"
       /\ (monPc # "resolve" /\ monPc' = "resolve")
            => /\ procs'
               /\ ~procs
               /\ pdOp = "trigger"]_vars

\* The monitor's third PagerDuty call is in flight: a trigger that follows a
\* trigger and a resolve.
C23_Witness ==
    /\ monPc = "trigger"
    /\ handled = 3
    /\ ~procs
    /\ now - presentAt >= IdleSec

====
